---- MODULE Spec2Model ----
(***************************************************************************)
(* The Material and PBRMetallicRoughness facades of model-viewer's         *)
(* scene-graph feature: one glTF material subtree backed by a set of       *)
(* correlated three.js MeshStandardMaterial objects.                       *)
(*                                                                         *)
(* An optional JSON field is a sequence: <<>> when the field is absent     *)
(* (undefined or null), <<v>> when it holds v.  A live texture handle is a *)
(* natural number, 0 standing for null.  The correlated set is an optional *)
(* sequence of material records in insertion order, so that its first      *)
(* element is what `values().next().value` returns.                        *)
(***************************************************************************)
EXTENDS Integers, Sequences, FiniteSets, TLC

VARIABLES
  gltfMaterial,         \* the document material subtree (mutated in place)
  correlatedMaterials,  \* <<>> when undefined, <<members>> when a Set
  facade,               \* "unconstructed", "Detached", "Bound" or "threw"
  textureInfos,         \* slot -> <<>> or <<the TextureInfo built for it>>
  console,              \* textureType of each console.info of the last constructor call
  onUpdateCalls,        \* how many times the onUpdate callback has run
  onUpdateSaw,          \* document and materials as the last onUpdate call saw them
  thrown,               \* "none" or the error the last call raised
  lastCall,             \* the last facade call: [op, arg]
  entry,                \* document, materials and bindings when the last constructor call began
  firstInfos,           \* the bindings the first construction built
  written,              \* factor -> <<>> or <<the value last written through a Bound facade>>
  writeCalls,           \* write operations called on a Bound facade
  constructions,        \* constructor calls so far
  steps                 \* input edits and facade calls so far

vars == <<gltfMaterial, correlatedMaterials, facade, textureInfos, console,
          onUpdateCalls, onUpdateSaw, thrown, lastCall, entry, firstInfos,
          written, writeCalls, constructions, steps>>

\* Input edits plus facade calls explored on one run.
MaxSteps == 5

----------------------------------------------------------------------------
\* Optional values and opaque handles

Absent == <<>>
Present(v) == <<v>>
\* `x == null`
IsNull(o) == o = <<>>

NullTexture == 0
Textures == {1, 2}

Slots == {"base", "metalness", "normal", "occlusion", "emissive"}
Factors == {"baseColorFactor", "metallicFactor", "roughnessFactor", "emissiveFactor"}

RECURSIVE Range(_)
Range(s) == IF s = <<>> THEN {} ELSE {Head(s)} \cup Range(Tail(s))

----------------------------------------------------------------------------
\* The inputs the constructor receives

EmptyPbr ==
  [baseColorFactor |-> Absent, roughnessFactor |-> Absent, metallicFactor |-> Absent,
   baseColorTexture |-> Absent, metallicRoughnessTexture |-> Absent]

EmptyMaterial ==
  [pbrMetallicRoughness |-> Absent, emissiveFactor |-> Absent,
   normalTexture |-> Absent, occlusionTexture |-> Absent, emissiveTexture |-> Absent]

\* A MeshStandardMaterial as three.js creates it: no texture on any slot.
NewThreeMaterial ==
  [color |-> <<1, 1, 1>>, opacity |-> 1, metalness |-> 0, roughness |-> 1,
   emissive |-> <<0, 0, 0>>,
   map |-> NullTexture, metalnessMap |-> NullTexture, normalMap |-> NullTexture,
   aoMap |-> NullTexture, emissiveMap |-> NullTexture]

\* Values a document may hold before construction, and values written later.
DocValues(f) ==
  CASE f = "baseColorFactor" -> {<<2, 2, 2, 0>>}
    [] f = "emissiveFactor" -> {<<2, 0, 2>>}
    [] OTHER -> {0}

WriteRGBA == {<<0, 1, 2, 3>>, <<3, 2, 1, 0>>}
WriteRGB == {<<0, 1, 2>>, <<3, 2, 1>>}
WriteScalars == {0, 3}
DocIndices == {0}

\* The pbrMetallicRoughness block of a document, {} when the document has none.
PbrOf(gm) ==
  IF IsNull(gm.pbrMetallicRoughness) THEN EmptyPbr ELSE gm.pbrMetallicRoughness[1]

\* A document's factor field.
DocFactor(gm, f) ==
  CASE f = "emissiveFactor" -> gm.emissiveFactor
    [] f = "baseColorFactor" ->
         IF IsNull(gm.pbrMetallicRoughness) THEN Absent ELSE PbrOf(gm).baseColorFactor
    [] f = "metallicFactor" ->
         IF IsNull(gm.pbrMetallicRoughness) THEN Absent ELSE PbrOf(gm).metallicFactor
    [] f = "roughnessFactor" ->
         IF IsNull(gm.pbrMetallicRoughness) THEN Absent ELSE PbrOf(gm).roughnessFactor

\* A document's own texture reference for a slot.
DocTextureRef(gm, slot) ==
  CASE slot = "base" ->
         IF IsNull(gm.pbrMetallicRoughness) THEN Absent ELSE PbrOf(gm).baseColorTexture
    [] slot = "metalness" ->
         IF IsNull(gm.pbrMetallicRoughness) THEN Absent
         ELSE PbrOf(gm).metallicRoughnessTexture
    [] slot = "normal" -> gm.normalTexture
    [] slot = "occlusion" -> gm.occlusionTexture
    [] slot = "emissive" -> gm.emissiveTexture

\* A renderer material's live texture for a slot.
LiveTexture(material, slot) ==
  CASE slot = "base" -> material.map
    [] slot = "metalness" -> material.metalnessMap
    [] slot = "normal" -> material.normalMap
    [] slot = "occlusion" -> material.aoMap
    [] slot = "emissive" -> material.emissiveMap

WithFactor(gm, f, v) ==
  CASE f = "emissiveFactor" -> [gm EXCEPT !.emissiveFactor = v]
    [] f = "baseColorFactor" ->
         [gm EXCEPT !.pbrMetallicRoughness = Present([PbrOf(gm) EXCEPT !.baseColorFactor = v])]
    [] f = "metallicFactor" ->
         [gm EXCEPT !.pbrMetallicRoughness = Present([PbrOf(gm) EXCEPT !.metallicFactor = v])]
    [] f = "roughnessFactor" ->
         [gm EXCEPT !.pbrMetallicRoughness = Present([PbrOf(gm) EXCEPT !.roughnessFactor = v])]

WithTextureRef(gm, slot, ref) ==
  CASE slot = "base" ->
         [gm EXCEPT !.pbrMetallicRoughness = Present([PbrOf(gm) EXCEPT !.baseColorTexture = ref])]
    [] slot = "metalness" ->
         [gm EXCEPT !.pbrMetallicRoughness =
                      Present([PbrOf(gm) EXCEPT !.metallicRoughnessTexture = ref])]
    [] slot = "normal" -> [gm EXCEPT !.normalTexture = ref]
    [] slot = "occlusion" -> [gm EXCEPT !.occlusionTexture = ref]
    [] slot = "emissive" -> [gm EXCEPT !.emissiveTexture = ref]

WithLiveTexture(material, slot, t) ==
  CASE slot = "base" -> [material EXCEPT !.map = t]
    [] slot = "metalness" -> [material EXCEPT !.metalnessMap = t]
    [] slot = "normal" -> [material EXCEPT !.normalMap = t]
    [] slot = "occlusion" -> [material EXCEPT !.aoMap = t]
    [] slot = "emissive" -> [material EXCEPT !.emissiveMap = t]

----------------------------------------------------------------------------
\* Construction

\* The base element keeps the set it is given, or nothing when given none.
ThreeDOMElement(correlatedObjects) ==
  IF IsNull(correlatedObjects) THEN "Detached" ELSE "Bound"

\* What `new TextureInfo(onUpdate, gltf, materials, texture, usage, gltfTextureInfo)`
\* is handed: the live texture, the usage tag and the reference record.
TextureInfo(texture, usage, gltfTextureInfo) ==
  [texture |-> texture, usage |-> usage, index |-> gltfTextureInfo.index]

NoTextureInfos == [slot \in Slots |-> Absent]

\* Mutants of InjectDefault: the default is never injected; the default always wins.
InjectDefault_never(field, default) == field
InjectDefault_always(field, default) == Present(default)

\* `if (x == null) { x = d; }`
InjectDefault(field, default) ==
  IF IsNull(field) THEN Present(default) ELSE field

\* The index of the reference that stands for "no texture".
NoTextureIndex == -1

\* Mutants of ResolveTexture: a declared reference keeps its index when the
\* renderer has no texture; the renderer's texture is not looked at.
ResolveTexture_keepsIndex(liveMap, gltfTexture) ==
  IF liveMap # NullTexture /\ ~IsNull(gltfTexture)
    THEN [texture |-> liveMap, gltfTexture |-> gltfTexture[1]]
    ELSE [texture |-> NullTexture,
          gltfTexture |-> IF IsNull(gltfTexture) THEN [index |-> NoTextureIndex]
                          ELSE gltfTexture[1]]
ResolveTexture_ignoresLive(liveMap, gltfTexture) ==
  IF ~IsNull(gltfTexture)
    THEN [texture |-> liveMap, gltfTexture |-> gltfTexture[1]]
    ELSE [texture |-> NullTexture, gltfTexture |-> [index |-> NoTextureIndex]]

\* `if (map != null && gltfTexture != null) { texture = map; } else { gltfTexture = {index: -1}; }`
\* on the constructor's local variables.
ResolveTexture(liveMap, gltfTexture) ==
  IF liveMap # NullTexture /\ ~IsNull(gltfTexture)
    THEN [texture |-> liveMap, gltfTexture |-> gltfTexture[1]]
    ELSE [texture |-> NullTexture, gltfTexture |-> [index |-> NoTextureIndex]]

\* Mutant of PbrVerify: both checks report the 'base' label.
RECURSIVE PbrVerify_oneLabel(_, _, _)
PbrVerify_oneLabel(materials, baseColorTexture, metallicRoughnessTexture) ==
  IF materials = <<>> THEN <<>>
  ELSE LET material == Head(materials)
       IN (IF baseColorTexture # material.map THEN <<"base">> ELSE <<>>)
          \o (IF metallicRoughnessTexture # material.metalnessMap THEN <<"base">> ELSE <<>>)
          \o PbrVerify_oneLabel(Tail(materials), baseColorTexture, metallicRoughnessTexture)

\* The verification loop of the PBR block: every member is compared with the
\* textures the constructor resolved.
RECURSIVE PbrVerify(_, _, _)
PbrVerify(materials, baseColorTexture, metallicRoughnessTexture) ==
  IF materials = <<>> THEN <<>>
  ELSE LET material == Head(materials)
           verifyMap == material.map
           verifyMetalnessMap == material.metalnessMap
       IN (IF baseColorTexture # verifyMap THEN <<"base">> ELSE <<>>)
          \o (IF metallicRoughnessTexture # verifyMetalnessMap THEN <<"metalness">> ELSE <<>>)
          \o PbrVerify(Tail(materials), baseColorTexture, metallicRoughnessTexture)

\* The verification loop of the material: every member is compared with the
\* first member's own maps.
RECURSIVE MaterialVerify(_, _, _, _)
MaterialVerify(materials, normalMap, aoMap, emissiveMap) ==
  IF materials = <<>> THEN <<>>
  ELSE LET m == Head(materials)
       IN (IF m.normalMap # normalMap THEN <<"normal">> ELSE <<>>)
          \o (IF m.aoMap # aoMap THEN <<"occlusion">> ELSE <<>>)
          \o (IF m.emissiveMap # emissiveMap THEN <<"emissive">> ELSE <<>>)
          \o MaterialVerify(Tail(materials), normalMap, aoMap, emissiveMap)

\* new PBRMetallicRoughness(onUpdate, gltf, pbrMetallicRoughness, correlatedMaterials):
\* the block as it leaves it, what it logged, the bindings it built, and whether
\* reading the first member of an empty set threw.
PBRMetallicRoughness(pbrMetallicRoughness, materials) ==
  LET source == [pbrMetallicRoughness EXCEPT
                   !.baseColorFactor = InjectDefault(@, <<1, 1, 1, 1>>),
                   !.roughnessFactor = InjectDefault(@, 1),
                   !.metallicFactor = InjectDefault(@, 1)]
  IN IF materials = <<>>
       THEN [source |-> source, threw |-> TRUE, console |-> <<>>,
             baseColorTexture |-> Absent, metallicRoughnessTexture |-> Absent]
       ELSE LET first == Head(materials)
                base == ResolveTexture(first.map, source.baseColorTexture)
                metal == ResolveTexture(first.metalnessMap, source.metallicRoughnessTexture)
            IN [source |-> source, threw |-> FALSE,
                console |-> PbrVerify(materials, base.texture, metal.texture),
                baseColorTexture |->
                  Present(TextureInfo(base.texture, "base", base.gltfTexture)),
                metallicRoughnessTexture |->
                  Present(TextureInfo(metal.texture, "metalness", metal.gltfTexture))]

\* new Material(onUpdate, gltf, gltfMaterial, correlatedMaterials): the document as
\* the constructor leaves it, the facade's state, its bindings, what was logged
\* and the error raised, if any.
Material(gm, correlated) ==
  IF IsNull(correlated)
    THEN [gltfMaterial |-> gm, facade |-> ThreeDOMElement(correlated),
          textureInfos |-> NoTextureInfos, console |-> <<>>, thrown |-> "none"]
    ELSE
      LET materials == correlated[1]
          pbr == PBRMetallicRoughness(PbrOf(gm), materials)
          withPbr == [gm EXCEPT !.pbrMetallicRoughness = Present(pbr.source)]
      IN IF pbr.threw
           THEN [gltfMaterial |-> withPbr, facade |-> "threw",
                 textureInfos |-> NoTextureInfos, console |-> <<>>,
                 thrown |-> "TypeError"]
           ELSE
             LET doc == [withPbr EXCEPT !.emissiveFactor = InjectDefault(@, <<0, 0, 0>>)]
                 first == Head(materials)
                 normal == ResolveTexture(first.normalMap, doc.normalTexture)
                 occlusion == ResolveTexture(first.aoMap, doc.occlusionTexture)
                 emissive == ResolveTexture(first.emissiveMap, doc.emissiveTexture)
             IN [gltfMaterial |-> doc,
                 facade |-> ThreeDOMElement(correlated),
                 textureInfos |->
                   [slot \in Slots |->
                      CASE slot = "base" -> pbr.baseColorTexture
                        [] slot = "metalness" -> pbr.metallicRoughnessTexture
                        [] slot = "normal" ->
                             Present(TextureInfo(normal.texture, "normal", normal.gltfTexture))
                        [] slot = "occlusion" ->
                             Present(TextureInfo(occlusion.texture, "occlusion",
                                                 occlusion.gltfTexture))
                        [] slot = "emissive" ->
                             Present(TextureInfo(emissive.texture, "emissive",
                                                 emissive.gltfTexture))],
                 console |-> pbr.console
                             \o MaterialVerify(materials, first.normalMap, first.aoMap,
                                               first.emissiveMap),
                 thrown |-> "none"]

----------------------------------------------------------------------------
\* Getters: they read the document subtree

baseColorFactor == DocFactor(gltfMaterial, "baseColorFactor")
metallicFactor == DocFactor(gltfMaterial, "metallicFactor")
roughnessFactor == DocFactor(gltfMaterial, "roughnessFactor")
emissiveFactor == DocFactor(gltfMaterial, "emissiveFactor")

Getter(f) ==
  CASE f = "baseColorFactor" -> baseColorFactor
    [] f = "metallicFactor" -> metallicFactor
    [] f = "roughnessFactor" -> roughnessFactor
    [] f = "emissiveFactor" -> emissiveFactor

----------------------------------------------------------------------------
\* Write operations: every material, then the document, then onUpdate

\* Color.fromArray(array): r, g, b from the first three components.
fromArray(array) == <<array[1], array[2], array[3]>>

\* this[$onUpdate](): the callback sees the state the call has produced so far.
onUpdate(sawMaterial, sawCorrelated) ==
  /\ onUpdateCalls' = onUpdateCalls + 1
  /\ onUpdateSaw' = [gltfMaterial |-> sawMaterial, correlatedMaterials |-> sawCorrelated]

Members == correlatedMaterials[1]

\* Mutant of setBaseColorFactor: opacity is read from the blue component.
setBaseColorFactor_opacity(rgba) ==
  /\ correlatedMaterials' =
       Present([i \in DOMAIN Members |->
                  [Members[i] EXCEPT !.color = fromArray(rgba), !.opacity = rgba[3]]])
  /\ gltfMaterial' = WithFactor(gltfMaterial, "baseColorFactor", Present(rgba))
  /\ onUpdate(gltfMaterial', correlatedMaterials')
  /\ thrown' = "none"

setBaseColorFactor(rgba) ==
  /\ correlatedMaterials' =
       Present([i \in DOMAIN Members |->
                  [Members[i] EXCEPT !.color = fromArray(rgba), !.opacity = rgba[4]]])
  /\ gltfMaterial' = WithFactor(gltfMaterial, "baseColorFactor", Present(rgba))
  /\ onUpdate(gltfMaterial', correlatedMaterials')
  /\ thrown' = "none"

setMetallicFactor(value) ==
  /\ correlatedMaterials' =
       Present([i \in DOMAIN Members |-> [Members[i] EXCEPT !.metalness = value]])
  /\ gltfMaterial' = WithFactor(gltfMaterial, "metallicFactor", Present(value))
  /\ onUpdate(gltfMaterial', correlatedMaterials')
  /\ thrown' = "none"

\* Mutant of setRoughnessFactor: onUpdate runs before the document is written.
setRoughnessFactor_early(value) ==
  /\ correlatedMaterials' =
       Present([i \in DOMAIN Members |-> [Members[i] EXCEPT !.roughness = value]])
  /\ onUpdate(gltfMaterial, correlatedMaterials')
  /\ gltfMaterial' = WithFactor(gltfMaterial, "roughnessFactor", Present(value))
  /\ thrown' = "none"

setRoughnessFactor(value) ==
  /\ correlatedMaterials' =
       Present([i \in DOMAIN Members |-> [Members[i] EXCEPT !.roughness = value]])
  /\ gltfMaterial' = WithFactor(gltfMaterial, "roughnessFactor", Present(value))
  /\ onUpdate(gltfMaterial', correlatedMaterials')
  /\ thrown' = "none"

\* Iterating the correlated set of a Detached facade (`for (... of undefined)`)
\* raises a TypeError before anything is written.
setEmissiveFactor(rgb) ==
  IF IsNull(correlatedMaterials)
    THEN /\ thrown' = "TypeError"
         /\ UNCHANGED <<correlatedMaterials, gltfMaterial, onUpdateCalls, onUpdateSaw>>
    ELSE /\ correlatedMaterials' =
              Present([i \in DOMAIN Members |->
                         [Members[i] EXCEPT !.emissive = fromArray(rgb)]])
         /\ gltfMaterial' = WithFactor(gltfMaterial, "emissiveFactor", Present(rgb))
         /\ onUpdate(gltfMaterial', correlatedMaterials')
         /\ thrown' = "none"

----------------------------------------------------------------------------
\* The state machine

NoCall == [op |-> "none", arg |-> Absent]

Init ==
  /\ gltfMaterial = EmptyMaterial
  /\ correlatedMaterials \in {Absent, Present(<<>>)}
  /\ facade = "unconstructed"
  /\ textureInfos = NoTextureInfos
  /\ console = <<>>
  /\ onUpdateCalls = 0
  /\ onUpdateSaw = [gltfMaterial |-> EmptyMaterial, correlatedMaterials |-> Absent]
  /\ thrown = "none"
  /\ lastCall = NoCall
  /\ entry = [gltfMaterial |-> EmptyMaterial, correlatedMaterials |-> Absent,
              textureInfos |-> NoTextureInfos]
  /\ firstInfos = NoTextureInfos
  /\ written = [f \in Factors |-> Absent]
  /\ writeCalls = 0
  /\ constructions = 0
  /\ steps = 0

facadeVars == <<facade, textureInfos, console, onUpdateCalls, onUpdateSaw, thrown,
                lastCall, entry, firstInfos, written, writeCalls, constructions>>

\* The loader fills the document and the correlated set before any facade exists.
LoadPbrBlock ==
  /\ facade = "unconstructed" /\ steps < MaxSteps
  /\ IsNull(gltfMaterial.pbrMetallicRoughness)
  /\ gltfMaterial' = [gltfMaterial EXCEPT !.pbrMetallicRoughness = Present(EmptyPbr)]
  /\ steps' = steps + 1
  /\ UNCHANGED <<correlatedMaterials, facadeVars>>

LoadFactor(f, v) ==
  /\ facade = "unconstructed" /\ steps < MaxSteps
  /\ IsNull(DocFactor(gltfMaterial, f))
  /\ gltfMaterial' = WithFactor(gltfMaterial, f, Present(v))
  /\ steps' = steps + 1
  /\ UNCHANGED <<correlatedMaterials, facadeVars>>

LoadTextureRef(slot, index) ==
  /\ facade = "unconstructed" /\ steps < MaxSteps
  /\ IsNull(DocTextureRef(gltfMaterial, slot))
  /\ gltfMaterial' = WithTextureRef(gltfMaterial, slot, Present([index |-> index]))
  /\ steps' = steps + 1
  /\ UNCHANGED <<correlatedMaterials, facadeVars>>

AddThreeMaterial ==
  /\ facade = "unconstructed" /\ steps < MaxSteps
  /\ ~IsNull(correlatedMaterials)
  /\ correlatedMaterials' = Present(Append(Members, NewThreeMaterial))
  /\ steps' = steps + 1
  /\ UNCHANGED <<gltfMaterial, facadeVars>>

SetLiveTexture(i, slot, t) ==
  /\ facade = "unconstructed" /\ steps < MaxSteps
  /\ ~IsNull(correlatedMaterials)
  /\ i \in DOMAIN Members
  /\ LiveTexture(Members[i], slot) = NullTexture
  /\ correlatedMaterials' =
       Present([Members EXCEPT ![i] = WithLiveTexture(Members[i], slot, t)])
  /\ steps' = steps + 1
  /\ UNCHANGED <<gltfMaterial, facadeVars>>

\* new Material(...) over the document and the correlated set as they are now.
Construct ==
  /\ facade \in {"unconstructed", "Bound", "Detached"}
  /\ facade # "unconstructed" => steps < MaxSteps
  /\ LET made == Material(gltfMaterial, correlatedMaterials)
     IN /\ gltfMaterial' = made.gltfMaterial
        /\ facade' = made.facade
        /\ textureInfos' = made.textureInfos
        /\ console' = made.console
        /\ thrown' = made.thrown
        /\ firstInfos' = IF constructions = 0 THEN made.textureInfos ELSE firstInfos
  /\ entry' = [gltfMaterial |-> gltfMaterial, correlatedMaterials |-> correlatedMaterials,
               textureInfos |-> textureInfos]
  /\ lastCall' = [op |-> "construct", arg |-> Absent]
  /\ constructions' = constructions + 1
  /\ steps' = IF facade = "unconstructed" THEN steps ELSE steps + 1
  /\ UNCHANGED <<correlatedMaterials, onUpdateCalls, onUpdateSaw, written, writeCalls>>

\* What every write call leaves alone or records about itself.
Called(op, f, v) ==
  /\ steps < MaxSteps
  /\ lastCall' = [op |-> op, arg |-> Present(v)]
  /\ written' = IF facade = "Bound" THEN [written EXCEPT ![f] = Present(v)] ELSE written
  /\ writeCalls' = IF facade = "Bound" THEN writeCalls + 1 ELSE writeCalls
  /\ steps' = steps + 1
  /\ UNCHANGED <<facade, textureInfos, console, entry, firstInfos, constructions>>

CallSetBaseColorFactor(rgba) ==
  /\ facade = "Bound"
  /\ setBaseColorFactor(rgba)
  /\ Called("setBaseColorFactor", "baseColorFactor", rgba)

CallSetMetallicFactor(value) ==
  /\ facade = "Bound"
  /\ setMetallicFactor(value)
  /\ Called("setMetallicFactor", "metallicFactor", value)

CallSetRoughnessFactor(value) ==
  /\ facade = "Bound"
  /\ setRoughnessFactor(value)
  /\ Called("setRoughnessFactor", "roughnessFactor", value)

CallSetEmissiveFactor(rgb) ==
  /\ facade \in {"Bound", "Detached"}
  /\ setEmissiveFactor(rgb)
  /\ Called("setEmissiveFactor", "emissiveFactor", rgb)

Next ==
  \/ LoadPbrBlock
  \/ \E f \in Factors : \E v \in DocValues(f) : LoadFactor(f, v)
  \/ \E slot \in Slots : \E index \in DocIndices : LoadTextureRef(slot, index)
  \/ AddThreeMaterial
  \/ \E i \in 1..MaxSteps : \E slot \in Slots : \E t \in Textures : SetLiveTexture(i, slot, t)
  \/ Construct
  \/ \E rgba \in WriteRGBA : CallSetBaseColorFactor(rgba)
  \/ \E value \in WriteScalars : CallSetMetallicFactor(value)
  \/ \E value \in WriteScalars : CallSetRoughnessFactor(value)
  \/ \E rgb \in WriteRGB : CallSetEmissiveFactor(rgb)

Spec == Init /\ [][Next]_vars

----------------------------------------------------------------------------
\* Properties

WriteOps == {"setBaseColorFactor", "setMetallicFactor", "setRoughnessFactor",
             "setEmissiveFactor"}

FactorOf(op) ==
  CASE op = "setBaseColorFactor" -> "baseColorFactor"
    [] op = "setMetallicFactor" -> "metallicFactor"
    [] op = "setRoughnessFactor" -> "roughnessFactor"
    [] op = "setEmissiveFactor" -> "emissiveFactor"

\* The documented default of a factor.
DocumentedDefault(f) ==
  CASE f = "baseColorFactor" -> <<1, 1, 1, 1>>
    [] f = "metallicFactor" -> 1
    [] f = "roughnessFactor" -> 1
    [] f = "emissiveFactor" -> <<0, 0, 0>>

\* A renderer material holds value v of factor f in its attribute.
MaterialHolds(m, f, v) ==
  CASE f = "baseColorFactor" -> m.color = <<v[1], v[2], v[3]>> /\ m.opacity = v[4]
    [] f = "metallicFactor" -> m.metalness = v
    [] f = "roughnessFactor" -> m.roughness = v
    [] f = "emissiveFactor" -> m.emissive = v

\* The document declared a texture reference for the slot when the last
\* constructor call began.
DeclaredAtEntry(slot) == ~IsNull(DocTextureRef(entry.gltfMaterial, slot))

\* Two members of the correlated set have different live textures for the slot.
Disagree(slot) ==
  \E i, j \in DOMAIN Members :
    LiveTexture(Members[i], slot) # LiveTexture(Members[j], slot)

\* The live texture of the representative (first) member.
RepresentativeTexture(slot) == LiveTexture(Members[1], slot)

\* C1: after a Bound construction returns, every factor field of the document
\* holds the value it had before the call when it was present (0 included) and
\* its documented default otherwise, so no factor getter returns undefined.
C1_FactorsPresentAfterConstruction ==
  (facade = "Bound" /\ lastCall.op = "construct") =>
    \A f \in Factors :
      /\ ~IsNull(Getter(f))
      /\ Getter(f) = IF IsNull(DocFactor(entry.gltfMaterial, f))
                       THEN Present(DocumentedDefault(f))
                       ELSE DocFactor(entry.gltfMaterial, f)

C1_Witness ==
  /\ facade = "Bound" /\ lastCall.op = "construct"
  /\ DocFactor(entry.gltfMaterial, "roughnessFactor") = Present(0)
  /\ IsNull(DocFactor(entry.gltfMaterial, "baseColorFactor"))
  /\ IsNull(entry.gltfMaterial.emissiveFactor)
  /\ roughnessFactor = Present(0)

\* C2: on a Bound facade, every factor written at least once is read back by
\* its getter as the value last written, is held by the document, and is held
\* by every correlated material (color and opacity for the base color).
C2_WriteThenRead ==
  facade = "Bound" =>
    \A f \in Factors :
      ~IsNull(written[f]) =>
        /\ Getter(f) = written[f]
        /\ DocFactor(gltfMaterial, f) = written[f]
        /\ \A i \in DOMAIN Members : MaterialHolds(Members[i], f, written[f][1])

C2_Witness ==
  /\ facade = "Bound" /\ Len(Members) >= 2
  /\ writeCalls >= 3
  /\ ~IsNull(written["baseColorFactor"]) /\ ~IsNull(written["roughnessFactor"])
  /\ IsNull(written["metallicFactor"]) /\ IsNull(written["emissiveFactor"])

\* C3: onUpdate has run exactly once for each write call on a Bound facade and
\* never otherwise (not by a constructor), and when it ran for the last write
\* the document and every correlated material already held the written value.
C3_NotifyOncePostWrite ==
  /\ onUpdateCalls = writeCalls
  /\ (facade = "Bound" /\ lastCall.op \in WriteOps) =>
       LET f == FactorOf(lastCall.op)
           saw == onUpdateSaw
       IN /\ DocFactor(saw.gltfMaterial, f) = lastCall.arg
          /\ \A i \in DOMAIN saw.correlatedMaterials[1] :
               MaterialHolds(saw.correlatedMaterials[1][i], f, lastCall.arg[1])
          /\ saw.gltfMaterial = gltfMaterial
          /\ saw.correlatedMaterials = correlatedMaterials

C3_Witness ==
  /\ facade = "Bound" /\ Len(Members) >= 2
  /\ lastCall.op = "setRoughnessFactor"
  /\ onUpdateCalls = 2 /\ constructions = 2

\* C4: when the document declared a texture reference for a slot and no
\* correlated material has a live texture for it, the slot's binding is built
\* with reference index -1 and a null live texture.
C4_DeclaredButNotLive ==
  facade = "Bound" =>
    \A slot \in Slots :
      (DeclaredAtEntry(slot)
       /\ \A i \in DOMAIN Members : LiveTexture(Members[i], slot) = NullTexture) =>
        /\ ~IsNull(textureInfos[slot])
        /\ textureInfos[slot][1].index = -1
        /\ textureInfos[slot][1].texture = NullTexture

C4_Witness ==
  /\ facade = "Bound" /\ Len(Members) >= 2
  /\ DocTextureRef(entry.gltfMaterial, "metalness") = Present([index |-> 0])
  /\ DocTextureRef(entry.gltfMaterial, "occlusion") = Present([index |-> 0])
  /\ \A i \in DOMAIN Members :
       /\ LiveTexture(Members[i], "metalness") = NullTexture
       /\ LiveTexture(Members[i], "occlusion") = NullTexture

\* C5 as stated: when two members disagree on a slot's live texture,
\* construction succeeds, the binding holds the first member's texture and a
\* diagnostic naming the slot is emitted, whatever the document declares.
C5_AsStated ==
  facade = "Bound" =>
    \A slot \in Slots :
      Disagree(slot) =>
        /\ thrown = "none"
        /\ textureInfos[slot][1].texture = RepresentativeTexture(slot)
        /\ slot \in Range(console)

\* C5 amended: when two members disagree on a slot's live texture,
\* construction succeeds and a diagnostic naming the slot is emitted; the
\* binding holds the first member's texture when the document declared a
\* reference for the slot, and a null texture when it declared none.
C5_DisagreementReported ==
  facade = "Bound" =>
    \A slot \in Slots :
      Disagree(slot) =>
        /\ thrown = "none"
        /\ textureInfos[slot][1].texture =
             IF DeclaredAtEntry(slot) THEN RepresentativeTexture(slot) ELSE NullTexture
        /\ slot \in Range(console)

C5_Witness ==
  /\ facade = "Bound" /\ Len(Members) = 2
  /\ \E slot \in {"metalness", "normal"} :
       /\ DeclaredAtEntry(slot)
       /\ LiveTexture(Members[1], slot) = 1
       /\ LiveTexture(Members[2], slot) = 2
       /\ textureInfos[slot][1].texture = 1

\* C6 as stated: a Material built over an absent correlated set is Detached,
\* and neither its construction nor a later setEmissiveFactor raises an error
\* or writes to a renderer object.
C6_DetachedWriteIsInert ==
  (facade # "unconstructed" /\ IsNull(correlatedMaterials)) =>
    /\ facade = "Detached"
    /\ thrown = "none"

\* C7 as stated: constructing over a present but empty correlated set raises
\* no error and yields a detached placeholder.
C7_EmptySetConstructs ==
  (lastCall.op = "construct" /\ correlatedMaterials = Present(<<>>)) =>
    /\ thrown = "none"
    /\ facade = "Detached"

\* C8 as stated: when all members of the correlated set have the same live
\* texture for a slot, construction emits no diagnostic naming that slot.
C8_NoDiagnosticWhenAgreed ==
  facade = "Bound" =>
    \A slot \in Slots : ~Disagree(slot) => slot \notin Range(console)

\* C9 as stated: unless the document declared a reference for a slot and the
\* first member has a live texture for it, the document's own texture-reference
\* field holds index -1 after a Bound construction.
C9_AsStated ==
  facade = "Bound" =>
    \A slot \in Slots :
      ~(DeclaredAtEntry(slot) /\ RepresentativeTexture(slot) # NullTexture) =>
        DocTextureRef(gltfMaterial, slot) = Present([index |-> -1])

\* C9 amended: unless the document declared a reference for a slot and the
\* first member has a live texture for it, the reference handed to the slot's
\* binding holds index -1, and the document's own texture-reference field is
\* left as it was before construction.
C9_SentinelOnBindingOnly ==
  facade = "Bound" =>
    \A slot \in Slots :
      ~(DeclaredAtEntry(slot) /\ RepresentativeTexture(slot) # NullTexture) =>
        /\ textureInfos[slot][1].index = -1
        /\ DocTextureRef(gltfMaterial, slot) = DocTextureRef(entry.gltfMaterial, slot)

C9_Witness ==
  /\ facade = "Bound" /\ lastCall.op = "construct"
  /\ DocTextureRef(gltfMaterial, "base") = Present([index |-> 0])
  /\ RepresentativeTexture("base") = NullTexture
  /\ IsNull(DocTextureRef(gltfMaterial, "emissive"))
  /\ RepresentativeTexture("emissive") # NullTexture
  /\ textureInfos["base"][1].index = -1

\* C10: a second construction over the document and the correlated set that a
\* Bound construction and later writes produced changes neither the document
\* nor any renderer material, and builds the five bindings with the same live
\* textures and reference indices as the first construction.
C10_ReconstructionIdempotent ==
  (facade = "Bound" /\ lastCall.op = "construct" /\ constructions >= 2) =>
    /\ gltfMaterial = entry.gltfMaterial
    /\ correlatedMaterials = entry.correlatedMaterials
    /\ \A slot \in Slots :
         /\ textureInfos[slot][1].texture = firstInfos[slot][1].texture
         /\ textureInfos[slot][1].index = firstInfos[slot][1].index

C10_Witness ==
  /\ facade = "Bound" /\ lastCall.op = "construct" /\ constructions = 2
  /\ writeCalls >= 1
  /\ ~IsNull(written["roughnessFactor"])
  /\ textureInfos["base"][1].texture # NullTexture
  /\ textureInfos["base"][1].index = 0

====
